---- MODULE Spec2Model ----
(***************************************************************************)
(* A model of game.py, the wrestling career simulation: the Player entity  *)
(* and its weekly actions, the match resolver, the tournament engine, the  *)
(* season state machine, the two risk systems and the main loop.           *)
(*                                                                         *)
(* Every method is a state transformer over the records `player` and       *)
(* `season`; every random draw of the code is an explicit argument, chosen *)
(* by the actions from small sets.                                         *)
(***************************************************************************)
EXTENDS Integers, Sequences, FiniteSets, TLC

VARIABLES
    player,     \* the Player dataclass
    season,     \* the Season dataclass (its player field is `player`)
    pc,         \* position of main()'s loop; "api" when operations are called freely
    save_file,  \* savegame.json: <<>> when absent, else <<data>>
    last,       \* what the last operation returned
    matches,    \* number of Match.simulate calls completed so far
    week_injuries, \* main(): the injury list as the week's menu was shown
    season_start, \* the record's wins and losses as the last year rollover left them
    ops         \* operations performed since the session started

vars == <<player, season, pc, save_file, last, matches, week_injuries, season_start, ops>>

Min(a, b) == IF a < b THEN a ELSE b

Max(a, b) == IF a > b THEN a ELSE b

Abs(a) == IF a < 0 THEN -a ELSE a

Range(s) == {s[i] : i \in DOMAIN s}

(***************************************************************************)
(* Enumerations and tables                                                 *)
(***************************************************************************)
(* enum members are their auto() values; a member's .name is looked up      *)
YOUTH == 1

JUNIOR_HIGH == 2

HIGH_SCHOOL == 3

COLLEGE == 4

POST_COLLEGE == 5

CareerStage == {YOUTH, JUNIOR_HIGH, HIGH_SCHOOL, COLLEGE, POST_COLLEGE}

CareerStageName == <<"YOUTH", "JUNIOR_HIGH", "HIGH_SCHOOL", "COLLEGE", "POST_COLLEGE">>

(* WeightClassSystem members index the table: YOUTH = 1, PIAA = 2, NCAA = 3 *)
WCS_YOUTH == 1

WCS_PIAA == 2

WCS_NCAA == 3

WEIGHT_CLASSES ==
    <<  <<60, 70, 80, 90, 100, 110>>,
        <<107, 114, 121, 127, 133, 139, 145, 152, 160, 172, 189, 215, 285>>,
        <<125, 133, 141, 149, 157, 165, 174, 184, 197, 285>>  >>

CATASTROPHIC == 1

MAJOR == 2

MODERATE == 3

MINOR == 4

InjurySeverity == {CATASTROPHIC, MAJOR, MODERATE, MINOR}

InjurySeverityName == <<"CATASTROPHIC", "MAJOR", "MODERATE", "MINOR">>

SEVERITY_DURATION == << <<52, 999>>, <<8, 17>>, <<3, 7>>, <<1, 2>> >>

(***************************************************************************)
(* Injury                                                                  *)
(***************************************************************************)
tick(injury) ==
    IF injury.remaining_weeks > 0
    THEN [injury EXCEPT !.remaining_weeks = @ - 1]
    ELSE injury

(* faulty variant: an injury that has just run out still counts as active *)
is_active_at_zero(injury) == injury.remaining_weeks >= 0

is_active(injury) == injury.remaining_weeks > 0

(***************************************************************************)
(* Finance: a log entry is the formatted string the code appends           *)
(***************************************************************************)
NewFinance == [money |-> 0, income_history |-> <<>>, expense_history |-> <<>>]

add_income(finance, amount, reason) ==
    [finance EXCEPT
        !.money = @ + amount,
        !.income_history = Append(@, "+$" \o ToString(amount) \o ": " \o reason)]

(* faulty variant: the expense is taken from the balance but not logged *)
add_expense_unlogged(finance, amount, reason) ==
    [finance EXCEPT !.money = @ - amount]

add_expense(finance, amount, reason) ==
    [finance EXCEPT
        !.money = @ - amount,
        !.expense_history = Append(@, "-$" \o ToString(amount) \o ": " \o reason)]

(***************************************************************************)
(* Stats                                                                   *)
(***************************************************************************)
NewStats ==
    [strength |-> 40, speed |-> 40, stamina |-> 40, technique |-> 40,
     mentality |-> 40, toughness |-> 40, confidence |-> 40]

clamp(stats) == [f \in DOMAIN stats |-> Max(0, Min(100, stats[f]))]

(***************************************************************************)
(* Record                                                                  *)
(***************************************************************************)
NewRecord == [wins |-> 0, losses |-> 0, pins |-> 0, majors |-> 0, decisions |-> 0]

is_win(outcome) == outcome.result \in {"Win by pin", "Win by major decision", "Win by decision"}

(* faulty variant: the method tally is two separate ifs, so a pin is a decision too *)
log_result_two_ifs(record, outcome) ==
    LET r1 == IF is_win(outcome)
              THEN [record EXCEPT !.wins = @ + 1]
              ELSE [record EXCEPT !.losses = @ + 1]
        r2 == IF outcome.pinned THEN [r1 EXCEPT !.pins = @ + 1] ELSE r1
    IN  IF outcome.major THEN [r2 EXCEPT !.majors = @ + 1]
        ELSE [r2 EXCEPT !.decisions = @ + 1]

log_result(record, outcome) ==
    LET r1 == IF is_win(outcome)
              THEN [record EXCEPT !.wins = @ + 1]
              ELSE [record EXCEPT !.losses = @ + 1]
    IN  IF outcome.pinned THEN [r1 EXCEPT !.pins = @ + 1]
        ELSE IF outcome.major THEN [r1 EXCEPT !.majors = @ + 1]
        ELSE [r1 EXCEPT !.decisions = @ + 1]

(***************************************************************************)
(* Player                                                                  *)
(***************************************************************************)
NewPlayer(name) ==
    [name |-> name, hometown |-> "Pennsylvania", age |-> 6, grade |-> 1,
     career_stage |-> YOUTH, weight_class |-> WEIGHT_CLASSES[WCS_YOUTH][1],
     stats |-> NewStats, fatigue |-> 10, injury_risk |-> 5, injuries |-> <<>>,
     finance |-> NewFinance, record |-> NewRecord, achievements |-> <<>>,
     weight_cut_pressure |-> 0]

weekly_reset(p) ==
    LET ticked == [i \in DOMAIN p.injuries |-> tick(p.injuries[i])]
    IN  [p EXCEPT
            !.stats = clamp(@),
            !.fatigue = Max(0, Min(100, @)),
            !.injury_risk = Max(1, Min(95, @)),
            !.injuries = SelectSeq(ticked, is_active)]

RECURSIVE SumPenalty(_, _)
SumPenalty(injuries, i) ==
    IF i > Len(injuries) THEN 0
    ELSE (IF is_active(injuries[i]) THEN injuries[i].stat_penalty ELSE 0)
         + SumPenalty(injuries, i + 1)

active_injury_penalty(p) == SumPenalty(p.injuries, 1)

current_weight_classes(p) ==
    IF p.career_stage = YOUTH THEN WEIGHT_CLASSES[WCS_YOUTH]
    ELSE IF p.career_stage = HIGH_SCHOOL \/ p.career_stage = JUNIOR_HIGH
         THEN WEIGHT_CLASSES[WCS_PIAA]
    ELSE WEIGHT_CLASSES[WCS_NCAA]

(* faulty variant: cut pressure, fatigue and injury risk are raised without a cap *)
adjust_weight_class_uncapped(p, target) ==
    IF target \notin Range(current_weight_classes(p))
    THEN [player |-> p, message |-> "Invalid weight class for current level."]
    ELSE LET risk_spike == Abs(target - p.weight_class) \div 5
             wcp == p.weight_cut_pressure + risk_spike
         IN  [player |-> [p EXCEPT
                            !.weight_class = target,
                            !.weight_cut_pressure = wcp,
                            !.fatigue = @ + risk_spike,
                            !.injury_risk = @ + risk_spike \div 2],
              message |-> "Moved to " \o ToString(target)
                          \o " weight class; cut pressure now " \o ToString(wcp) \o "."]

(* faulty variant: the target is not looked up in the class list *)
adjust_weight_class_unchecked(p, target) ==
    LET risk_spike == Abs(target - p.weight_class) \div 5
        wcp == Min(100, p.weight_cut_pressure + risk_spike)
    IN  [player |-> [p EXCEPT
                       !.weight_class = target,
                       !.weight_cut_pressure = wcp,
                       !.fatigue = Min(100, @ + risk_spike),
                       !.injury_risk = Min(95, @ + risk_spike \div 2)],
         message |-> "Moved to " \o ToString(target)
                     \o " weight class; cut pressure now " \o ToString(wcp) \o "."]

adjust_weight_class(p, target) ==
    IF target \notin Range(current_weight_classes(p))
    THEN [player |-> p, message |-> "Invalid weight class for current level."]
    ELSE LET risk_spike == Abs(target - p.weight_class) \div 5
             wcp == Min(100, p.weight_cut_pressure + risk_spike)
         IN  [player |-> [p EXCEPT
                            !.weight_class = target,
                            !.weight_cut_pressure = wcp,
                            !.fatigue = Min(100, @ + risk_spike),
                            !.injury_risk = Min(95, @ + risk_spike \div 2)],
              message |-> "Moved to " \o ToString(target)
                          \o " weight class; cut pressure now " \o ToString(wcp) \o "."]

(* apply_action: `draw` is the value random.randint returns in the branch taken *)
action_effect(p, action, draw) ==
    CASE action = "strength" ->
            [player |-> [p EXCEPT !.stats.strength = @ + draw,
                                  !.fatigue = @ + 8,
                                  !.injury_risk = @ + 2,
                                  !.finance = add_expense(@, 10, "Weight room access")],
             message |-> "Strength increased by " \o ToString(draw) \o "."]
      [] action = "technique" ->
            [player |-> [p EXCEPT !.stats.technique = @ + draw,
                                  !.stats.mentality = @ + 1,
                                  !.fatigue = @ + 6,
                                  !.finance = add_expense(@, 15, "Club practice")],
             message |-> "Technique increased by " \o ToString(draw) \o "."]
      [] action = "film" ->
            [player |-> [p EXCEPT !.stats.technique = @ + 1,
                                  !.stats.confidence = @ + 1,
                                  !.fatigue = @ + 3,
                                  !.finance = add_expense(@, 5, "Film subscription")],
             message |-> "Studied film and improved awareness."]
      [] action = "condition" ->
            [player |-> [p EXCEPT !.stats.stamina = @ + 1,
                                  !.stats.speed = @ + 1,
                                  !.fatigue = @ + 7,
                                  !.finance = add_expense(@, 5, "Running shoes")],
             message |-> "Conditioning improved stamina and speed."]
      [] action = "rest" ->
            [player |-> [p EXCEPT !.fatigue = Max(0, @ - draw),
                                  !.injury_risk = Max(1, @ - 2)],
             message |-> "Rested and recovered " \o ToString(draw) \o " fatigue."]
      [] action = "recover" ->
            IF p.injuries = <<>>
            THEN [player |-> p, message |-> "No injuries to rehab."]
            ELSE [player |-> [p EXCEPT
                    !.injuries = [i \in DOMAIN @ |->
                        [@[i] EXCEPT !.remaining_weeks = Max(0, @ - 1)]],
                    !.fatigue = Max(0, @ - 5),
                    !.finance = add_expense(@, 25, "Physical therapy")],
                  message |-> "Spent the week rehabbing injuries."]
      [] action = "weight" ->
            [player |-> [p EXCEPT !.weight_cut_pressure = Max(0, @ - draw),
                                  !.fatigue = @ + 4,
                                  !.injury_risk = @ + 1],
             message |-> "Managed weight; cut pressure lowered by " \o ToString(draw) \o "."]
      [] action = "equipment" ->
            [player |-> [p EXCEPT !.finance = add_expense(@, 50, "New headgear and shoes"),
                                  !.stats.confidence = @ + 2],
             message |-> "Purchased equipment boosting morale."]
      [] action = "coach" ->
            [player |-> [p EXCEPT !.finance = add_expense(@, 75, "Private coach session"),
                                  !.stats.technique = @ + 2,
                                  !.stats.mentality = @ + 1,
                                  !.fatigue = @ + 5],
             message |-> "Private coaching refined technique."]
      [] action = "nil" ->
            IF p.career_stage \in {HIGH_SCHOOL, COLLEGE} /\ p.grade >= 12
            THEN [player |-> [p EXCEPT
                    !.finance = add_income(@, draw, "Local NIL appearance"),
                    !.stats.confidence = @ + 1],
                  message |-> "Secured a small NIL deal worth $" \o ToString(draw) \o "."]
            ELSE [player |-> p, message |-> "Not eligible for NIL at this stage."]
      [] OTHER -> [player |-> p, message |-> "Unknown action."]

apply_action(p, action, draw) ==
    LET e == action_effect(p, action, draw)
    IN  [player |-> weekly_reset(e.player), message |-> e.message]

(* faulty variant: the junior-high band is missing *)
stage_of_grade_no_junior_high(grade) ==
    IF grade <= 6 THEN YOUTH
    ELSE IF grade <= 12 THEN HIGH_SCHOOL
    ELSE IF grade <= 16 THEN COLLEGE
    ELSE POST_COLLEGE

stage_of_grade(grade) ==
    IF grade <= 6 THEN YOUTH
    ELSE IF grade <= 8 THEN JUNIOR_HIGH
    ELSE IF grade <= 12 THEN HIGH_SCHOOL
    ELSE IF grade <= 16 THEN COLLEGE
    ELSE POST_COLLEGE

(* faulty variant: of two classes equally close the later one is taken *)
closest_upper(classes, weight) ==
    LET best == CHOOSE i \in DOMAIN classes :
                    /\ \A j \in DOMAIN classes :
                          Abs(classes[i] - weight) <= Abs(classes[j] - weight)
                    /\ \A j \in (i + 1)..Len(classes) :
                          Abs(classes[j] - weight) > Abs(classes[i] - weight)
    IN  classes[best]

(* faulty variant: the weight class is carried over unchanged *)
closest_kept(classes, weight) == weight

(* min(classes, key=...): the first element of the list with the least key *)
closest(classes, weight) ==
    LET best == CHOOSE i \in DOMAIN classes :
                    /\ \A j \in DOMAIN classes :
                          Abs(classes[i] - weight) <= Abs(classes[j] - weight)
                    /\ \A j \in 1..(i - 1) :
                          Abs(classes[j] - weight) > Abs(classes[i] - weight)
    IN  classes[best]

(* faulty variant: the stipend is paid at every rollover of a college year *)
season_progression_every_year(p) ==
    LET p1 == [p EXCEPT !.age = @ + 1, !.grade = @ + 1]
        p2 == [p1 EXCEPT !.career_stage = stage_of_grade(p1.grade)]
        p3 == [p2 EXCEPT !.weight_class = closest(current_weight_classes(p2), p2.weight_class)]
    IN  IF p3.career_stage = COLLEGE
        THEN [p3 EXCEPT !.finance = add_income(@, 500, "Scholarship stipend")]
        ELSE p3

season_progression(p) ==
    LET p1 == [p EXCEPT !.age = @ + 1, !.grade = @ + 1]
        p2 == [p1 EXCEPT !.career_stage = stage_of_grade(p1.grade)]
        p3 == [p2 EXCEPT !.weight_class = closest(current_weight_classes(p2), p2.weight_class)]
    IN  IF p3.career_stage = COLLEGE /\ p3.grade = 13
        THEN [p3 EXCEPT !.finance = add_income(@, 500, "Scholarship stipend")]
        ELSE p3

(***************************************************************************)
(* Opponent: `d` holds the draws of generate_for_stage                     *)
(***************************************************************************)
stage_base == <<35, 45, 55, 65, 70>>

generate_for_stage(stage, d) ==
    LET base == stage_base[stage]
    IN  [name |-> "Tough Rival",
         tier |-> d.tier,
         stats |-> clamp([strength  |-> base + d.strength,
                          speed     |-> base + d.speed,
                          stamina   |-> base + d.stamina,
                          technique |-> base + d.technique,
                          mentality |-> base + d.mentality,
                          toughness |-> base + d.toughness,
                          confidence |-> base])]

(***************************************************************************)
(* Match                                                                   *)
(***************************************************************************)
MatchOutcome(result, pinned, major) == [result |-> result, pinned |-> pinned, major |-> major]

(* faulty variant: a level match goes to the player *)
decide_tie_wins(player_score, threshold) ==
    IF player_score - threshold > 20 THEN MatchOutcome("Win by pin", TRUE, FALSE)
    ELSE IF player_score > threshold + 10 THEN MatchOutcome("Win by major decision", FALSE, TRUE)
    ELSE IF player_score >= threshold THEN MatchOutcome("Win by decision", FALSE, FALSE)
    ELSE IF threshold - player_score > 20 THEN MatchOutcome("Loss by pin", TRUE, FALSE)
    ELSE IF threshold > player_score + 10 THEN MatchOutcome("Loss by major decision", FALSE, TRUE)
    ELSE MatchOutcome("Loss by decision", FALSE, FALSE)

decide(player_score, threshold) ==
    IF player_score - threshold > 20 THEN MatchOutcome("Win by pin", TRUE, FALSE)
    ELSE IF player_score > threshold + 10 THEN MatchOutcome("Win by major decision", FALSE, TRUE)
    ELSE IF player_score > threshold THEN MatchOutcome("Win by decision", FALSE, FALSE)
    ELSE IF threshold - player_score > 20 THEN MatchOutcome("Loss by pin", TRUE, FALSE)
    ELSE IF threshold > player_score + 10 THEN MatchOutcome("Loss by major decision", FALSE, TRUE)
    ELSE MatchOutcome("Loss by decision", FALSE, FALSE)

(* simulate: `variability` and `tdraw` are the two random.randint results *)
simulate(p, opponent, variability, tdraw) ==
    LET penalty == active_injury_penalty(p)
        player_score == p.stats.strength + p.stats.technique + p.stats.speed
                        + p.stats.stamina + p.stats.mentality
                        - p.fatigue - penalty + variability
        opp_score == opponent.stats.strength + opponent.stats.technique
                     + opponent.stats.speed + opponent.stats.stamina
                     + opponent.stats.mentality
        threshold == opp_score + tdraw
        outcome == decide(player_score, threshold)
        conf == p.stats.confidence + (IF is_win(outcome) THEN 2 ELSE -2)
    IN  [player |-> [p EXCEPT !.record = log_result(@, outcome),
                              !.stats.confidence = Max(0, Min(100, conf))],
         outcome |-> outcome,
         player_score |-> player_score,
         threshold |-> threshold]

(***************************************************************************)
(* Tournament: rounds[i] holds the draws of the i-th pass of the loop      *)
(***************************************************************************)
Tournament(name, level) == [name |-> name, level |-> level, bracket_size |-> 8]

(* faulty variant: the loop has no break, so the bracket goes on after a loss *)
RECURSIVE run_rounds_no_break(_, _, _, _, _)
run_rounds_no_break(p, rounds, i, n, played) ==
    IF i > n
    THEN [player |-> p,
          losses |-> Cardinality({j \in DOMAIN played : ~is_win([result |-> played[j]])}),
          played |-> played]
    ELSE CHOOSE r \in
            {run_rounds_no_break(m.player, rounds, i + 1, n, Append(played, m.outcome.result))
                : m \in {simulate(p, generate_for_stage(p.career_stage, rounds[i].opp),
                                  rounds[i].variability, rounds[i].tdraw)}} : TRUE

(* the loop of run; the result of each simulate call is bound as a value m *)
RECURSIVE run_rounds(_, _, _, _, _)
run_rounds(p, rounds, i, n, played) ==
    IF i > n
    THEN [player |-> p, losses |-> 0, played |-> played]
    ELSE CHOOSE r \in
            {IF is_win(m.outcome)
             THEN run_rounds(m.player, rounds, i + 1, n, Append(played, m.outcome.result))
             ELSE [player |-> m.player, losses |-> 1,
                   played |-> Append(played, m.outcome.result)]
                : m \in {simulate(p, generate_for_stage(p.career_stage, rounds[i].opp),
                                  rounds[i].variability, rounds[i].tdraw)}} : TRUE

placement_of(wins, losses) == IF losses = 0 THEN "Champion" ELSE ToString(wins) \o " wins"

run(tournament, p, rounds) ==
    CHOOSE out \in
        {[player |-> [r.player EXCEPT !.achievements =
                        Append(@, tournament.level \o " " \o tournament.name \o ": "
                                  \o placement_of(Len(r.played) - r.losses, r.losses))],
          played |-> r.played,
          message |-> "Tournament " \o tournament.name \o " (" \o tournament.level
                      \o ") result: "
                      \o placement_of(Len(r.played) - r.losses, r.losses) \o "."]
            : r \in {run_rounds(p, rounds, 1, tournament.bracket_size \div 2, <<>>)}} : TRUE

(***************************************************************************)
(* Season: postseason_phase None is the string "None"                      *)
(***************************************************************************)
NewSeason ==
    [week |-> 1, in_season |-> FALSE, postseason_phase |-> "None", recruitment_interest |-> 0]

(* faulty variant: leaving the season keeps the phase *)
toggle_season_keeps_phase(s) == [s EXCEPT !.in_season = ~@]

toggle_season(s) ==
    LET s1 == [s EXCEPT !.in_season = ~@]
    IN  IF ~s1.in_season THEN [s1 EXCEPT !.postseason_phase = "None"] ELSE s1

(* faulty variant: a rollover opens the season *)
advance_week_opens_season(p, s) ==
    LET s1 == [s EXCEPT !.week = @ + 1]
        p1 == weekly_reset(p)
    IN  IF s1.week % 52 = 0
        THEN LET p2 == season_progression(p1)
             IN  [player |-> p2,
                  season |-> [s1 EXCEPT
                      !.recruitment_interest = @ + Max(0, p2.record.wins - p2.record.losses),
                      !.in_season = TRUE,
                      !.postseason_phase = "None"]]
        ELSE [player |-> p1, season |-> s1]

(* faulty variant: a rollover leaves the season flag and the phase as they are *)
advance_week_keeps_season(p, s) ==
    LET s1 == [s EXCEPT !.week = @ + 1]
        p1 == weekly_reset(p)
    IN  IF s1.week % 52 = 0
        THEN LET p2 == season_progression(p1)
             IN  [player |-> p2,
                  season |-> [s1 EXCEPT
                      !.recruitment_interest = @ + Max(0, p2.record.wins - p2.record.losses)]]
        ELSE [player |-> p1, season |-> s1]

advance_week(p, s) ==
    LET s1 == [s EXCEPT !.week = @ + 1]
        p1 == weekly_reset(p)
    IN  IF s1.week % 52 = 0
        THEN LET p2 == season_progression(p1)
             IN  [player |-> p2,
                  season |-> [s1 EXCEPT
                      !.recruitment_interest = @ + Max(0, p2.record.wins - p2.record.losses),
                      !.in_season = FALSE,
                      !.postseason_phase = "None"]]
        ELSE [player |-> p1, season |-> s1]

phases_of(stage) ==
    IF stage \in {HIGH_SCHOOL, JUNIOR_HIGH}
    THEN <<"Districts", "Regionals", "States">>
    ELSE <<"Conference", "NCAA">>

(* faulty variant: an exhausted sequence starts over *)
determine_postseason_restart(p, s) ==
    IF ~s.in_season THEN [season |-> s, tournament |-> <<>>, error |-> FALSE]
    ELSE LET phases == phases_of(p.career_stage)
         IN  IF s.postseason_phase = "None"
             THEN [season |-> [s EXCEPT !.postseason_phase = phases[1]],
                   tournament |-> <<Tournament(phases[1], CareerStageName[p.career_stage])>>,
                   error |-> FALSE]
             ELSE IF s.postseason_phase \notin Range(phases)
             THEN [season |-> s, tournament |-> <<>>, error |-> TRUE]
             ELSE LET idx == CHOOSE i \in DOMAIN phases : phases[i] = s.postseason_phase
                  IN  IF idx + 1 <= Len(phases)
                      THEN [season |-> [s EXCEPT !.postseason_phase = phases[idx + 1]],
                            tournament |->
                                <<Tournament(phases[idx + 1], CareerStageName[p.career_stage])>>,
                            error |-> FALSE]
                      ELSE [season |-> [s EXCEPT !.postseason_phase = "None"],
                            tournament |-> <<>>, error |-> FALSE]

(* list.index raises ValueError when the phase is not in the list: "error" *)
determine_postseason(p, s) ==
    IF ~s.in_season THEN [season |-> s, tournament |-> <<>>, error |-> FALSE]
    ELSE LET phases == phases_of(p.career_stage)
         IN  IF s.postseason_phase = "None"
             THEN [season |-> [s EXCEPT !.postseason_phase = phases[1]],
                   tournament |-> <<Tournament(phases[1], CareerStageName[p.career_stage])>>,
                   error |-> FALSE]
             ELSE IF s.postseason_phase \notin Range(phases)
             THEN [season |-> s, tournament |-> <<>>, error |-> TRUE]
             ELSE LET idx == CHOOSE i \in DOMAIN phases : phases[i] = s.postseason_phase
                  IN  IF idx + 1 <= Len(phases)
                      THEN [season |-> [s EXCEPT !.postseason_phase = phases[idx + 1]],
                            tournament |->
                                <<Tournament(phases[idx + 1], CareerStageName[p.career_stage])>>,
                            error |-> FALSE]
                      ELSE [season |-> s, tournament |-> <<>>, error |-> FALSE]

(***************************************************************************)
(* SaveLoadSystem: the JSON document is the record json.dump receives      *)
(***************************************************************************)
injury_to_json(inj) ==
    [name |-> inj.name, severity |-> InjurySeverityName[inj.severity],
     remaining_weeks |-> inj.remaining_weeks, stat_penalty |-> inj.stat_penalty]

save(p, s) ==
    [player |-> [p EXCEPT
                    !.career_stage = CareerStageName[p.career_stage],
                    !.injuries = [i \in DOMAIN p.injuries |-> injury_to_json(p.injuries[i])]],
     season |-> [week |-> s.week, in_season |-> s.in_season,
                 postseason_phase |-> s.postseason_phase,
                 recruitment_interest |-> s.recruitment_interest],
     career_stage |-> CareerStageName[p.career_stage]]

(* faulty variant: the name is not looked up *)
member_named_any(names, name) == CHOOSE m \in DOMAIN names : TRUE

(* Enum[name]: the member whose name it is *)
member_named(names, name) == CHOOSE m \in DOMAIN names : names[m] = name

(* load: objects built from the document; a rebuilt Injury is a new object *)
load(data) ==
    LET pd == data.player
    IN  [player |-> [pd EXCEPT
                        !.career_stage = member_named(CareerStageName, pd.career_stage),
                        !.injuries = [i \in DOMAIN pd.injuries |->
                            [id |-> i,
                             name |-> pd.injuries[i].name,
                             severity |-> member_named(InjurySeverityName, pd.injuries[i].severity),
                             remaining_weeks |-> pd.injuries[i].remaining_weeks,
                             stat_penalty |-> pd.injuries[i].stat_penalty]]],
         season |-> [week |-> data.season.week, in_season |-> data.season.in_season,
                     postseason_phase |-> data.season.postseason_phase,
                     recruitment_interest |-> data.season.recruitment_interest]]

(***************************************************************************)
(* RandomEvents: `roll` is random.random() in hundredths, `draw` the       *)
(* illness penalty                                                         *)
(***************************************************************************)
EVENTS == << <<"illness", 5>>, <<"bad_cut", 5>>, <<"rival", 3>>,
             <<"equipment_break", 4>>, <<"recruiting_bump", 2>> >>

event_apply(name, p, s, draw) ==
    CASE name = "illness" ->
            [player |-> [p EXCEPT !.stats.stamina = Max(0, @ - draw),
                                  !.fatigue = Min(100, @ + 10)],
             season |-> s,
             message |-> "Caught a cold; stamina dipped temporarily."]
      [] name = "bad_cut" ->
            [player |-> [p EXCEPT !.fatigue = Min(100, @ + 15),
                                  !.injury_risk = Min(95, @ + 10)],
             season |-> s,
             message |-> "Rough weight cut increased fatigue and injury risk."]
      [] name = "rival" ->
            [player |-> [p EXCEPT !.stats.confidence = @ + 3],
             season |-> s,
             message |-> "A rival emerged, motivating harder training."]
      [] name = "equipment_break" ->
            [player |-> [p EXCEPT !.finance = add_expense(@, 30, "Replaced broken gear")],
             season |-> s,
             message |-> "Gear broke unexpectedly, costing money."]
      [] name = "recruiting_bump" ->
            [player |-> p,
             season |-> [s EXCEPT !.recruitment_interest = @ + 5],
             message |-> "Outstanding performance attracted college scouts."]
      [] OTHER -> [player |-> p, season |-> s, message |-> ""]

RECURSIVE trigger_from(_, _, _, _, _, _)
trigger_from(i, cumulative, roll, p, s, draw) ==
    IF i > Len(EVENTS)
    THEN [player |-> p, season |-> s, message |-> "None"]
    ELSE IF roll < cumulative + EVENTS[i][2]
         THEN event_apply(EVENTS[i][1], p, s, draw)
         ELSE trigger_from(i + 1, cumulative + EVENTS[i][2], roll, p, s, draw)

trigger(p, s, roll, draw) == trigger_from(1, 0, roll, p, s, draw)

(***************************************************************************)
(* apply_injury_risk: `roll`, `severity` and `duration` are its draws      *)
(***************************************************************************)
severity_penalty == <<100, 15, 8, 3>>

severity_title == <<"Catastrophic", "Major", "Moderate", "Minor">>

(* a new Injury object: an identity no injury of the list has *)
fresh_id(injuries) ==
    CHOOSE k \in 1..(Len(injuries) + 1) :
        /\ \A i \in DOMAIN injuries : injuries[i].id # k
        /\ \A j \in 1..(k - 1) : \E i \in DOMAIN injuries : injuries[i].id = j

apply_injury_risk(p, roll, severity, duration) ==
    IF roll <= p.injury_risk
    THEN LET injury == [id |-> fresh_id(p.injuries),
                        name |-> severity_title[severity] \o " injury",
                        severity |-> severity,
                        remaining_weeks |-> duration,
                        stat_penalty |-> severity_penalty[severity]]
             p1 == [p EXCEPT !.injuries = Append(@, injury)]
         IN  [player |-> IF severity = CATASTROPHIC
                         THEN [p1 EXCEPT !.achievements = Append(@, "Career ended due to injury")]
                         ELSE p1,
              message |-> "Injury occurred: " \o injury.name \o " lasting "
                          \o ToString(duration) \o " weeks."]
    ELSE [player |-> p, message |-> "None"]

(***************************************************************************)
(* process_choice: `d` holds the draws the chosen branch consumes          *)
(***************************************************************************)
menu_actions ==
    [c \in {"1", "2", "3", "4", "5", "6", "7", "8", "9"} |->
        CASE c = "1" -> "technique"
          [] c = "2" -> "strength"
          [] c = "3" -> "condition"
          [] c = "4" -> "rest"
          [] c = "5" -> "film"
          [] c = "6" -> "weight"
          [] c = "7" -> "equipment"
          [] c = "8" -> "coach"
          [] c = "9" -> "nil"]

(* faulty variant: a dual meet is run whether or not the season is on *)
process_choice_open_meet(choice, p, s, file, d) ==
    IF choice \in DOMAIN menu_actions
    THEN LET r == apply_action(p, menu_actions[choice], d.draw)
         IN  [player |-> r.player, season |-> s, save_file |-> file,
              result |-> r.message, played |-> <<>>]
    ELSE IF choice = "10"
    THEN LET opponent == generate_for_stage(p.career_stage, d.rounds[1].opp)
             m == simulate(p, opponent, d.rounds[1].variability, d.rounds[1].tdraw)
         IN  [player |-> m.player, season |-> s, save_file |-> file,
              result |-> "Dual meet vs " \o opponent.tier \o " foe: "
                         \o m.outcome.result \o ".",
              played |-> <<m.outcome.result>>]
    ELSE IF choice = "11"
    THEN IF ~s.in_season
         THEN [player |-> p, season |-> s, save_file |-> file,
               result |-> "Tournaments only occur in season.", played |-> <<>>]
         ELSE LET t == run(Tournament("Local Open", CareerStageName[p.career_stage]), p, d.rounds)
              IN  [player |-> t.player, season |-> s, save_file |-> file,
                   result |-> t.message, played |-> t.played]
    ELSE IF choice = "12"
    THEN [player |-> p, season |-> s, save_file |-> <<save(p, s)>>,
          result |-> "Game saved.", played |-> <<>>]
    ELSE IF choice = "13"
    THEN [player |-> p, season |-> s, save_file |-> <<save(p, s)>>,
          result |-> "None", played |-> <<>>]
    ELSE [player |-> p, season |-> s, save_file |-> file,
          result |-> "Invalid selection", played |-> <<>>]

process_choice(choice, p, s, file, d) ==
    IF choice \in DOMAIN menu_actions
    THEN LET r == apply_action(p, menu_actions[choice], d.draw)
         IN  [player |-> r.player, season |-> s, save_file |-> file,
              result |-> r.message, played |-> <<>>]
    ELSE IF choice = "10"
    THEN IF ~s.in_season
         THEN [player |-> p, season |-> s, save_file |-> file,
               result |-> "Dual meets only occur in season.", played |-> <<>>]
         ELSE LET opponent == generate_for_stage(p.career_stage, d.rounds[1].opp)
                  m == simulate(p, opponent, d.rounds[1].variability, d.rounds[1].tdraw)
              IN  [player |-> m.player, season |-> s, save_file |-> file,
                   result |-> "Dual meet vs " \o opponent.tier \o " foe: "
                              \o m.outcome.result \o ".",
                   played |-> <<m.outcome.result>>]
    ELSE IF choice = "11"
    THEN IF ~s.in_season
         THEN [player |-> p, season |-> s, save_file |-> file,
               result |-> "Tournaments only occur in season.", played |-> <<>>]
         ELSE LET t == run(Tournament("Local Open", CareerStageName[p.career_stage]), p, d.rounds)
              IN  [player |-> t.player, season |-> s, save_file |-> file,
                   result |-> t.message, played |-> t.played]
    ELSE IF choice = "12"
    THEN [player |-> p, season |-> s, save_file |-> <<save(p, s)>>,
          result |-> "Game saved.", played |-> <<>>]
    ELSE IF choice = "13"
    THEN [player |-> p, season |-> s, save_file |-> <<save(p, s)>>,
          result |-> "None", played |-> <<>>]
    ELSE [player |-> p, season |-> s, save_file |-> file,
          result |-> "Invalid selection", played |-> <<>>]

(***************************************************************************)
(* The draws and inputs the actions choose from                            *)
(***************************************************************************)
ActionIds ==
    {"strength", "technique", "film", "condition", "rest", "recover",
     "weight", "equipment", "coach", "nil"}

(* random.randint(lo, hi) of each branch of apply_action: its two ends *)
action_draws(action) ==
    CASE action = "strength" -> {1, 2}
      [] action = "technique" -> {1, 3}
      [] action = "rest" -> {8, 15}
      [] action = "weight" -> {1, 4}
      [] action = "nil" -> {50, 150}
      [] OTHER -> {0}

(* the actions called directly: the one the menu does not offer, an unknown one,
   and one with a precondition; the menu calls the others *)
DirectActions == {"recover", "nil", "unknown"}

Choices == {"1", "2", "3", "4", "5", "6", "7", "8", "9", "10", "11", "12", "13", "x"}

TargetInputs == {60, 110, 107, 145, 285, 125, 149}

(* generate_for_stage: spread, then one draw per stat within the spread *)
OppDraw(spread, strength, others, tier) ==
    [spread |-> spread,
     strength |-> strength,
     speed |-> others,
     stamina |-> others,
     technique |-> others,
     mentality |-> others \div 2,
     toughness |-> others \div 2,
     tier |-> tier]

WeakOpp == OppDraw(0, 0, 0, "local")

MidOpp == OppDraw(20, 20, 0, "state")

StrongOpp == OppDraw(20, 20, 20, "national")

RoundDraw(opp, variability, tdraw) == [opp |-> opp, variability |-> variability, tdraw |-> tdraw]

(* one match: the ends and the middle of the variability range *)
MatchDraws == {RoundDraw(o, v, 10) : o \in {WeakOpp, StrongOpp}, v \in {-20, 0, 20}}

Favourable == RoundDraw(WeakOpp, 20, -10)

Unfavourable == RoundDraw(StrongOpp, -20, 10)

(* the rounds of a bracket: favourable draws up to an unfavourable one, if any *)
BracketDraws(n) ==
    {[i \in 1..n |-> IF i = k THEN Unfavourable ELSE Favourable] : k \in 1..(n + 1)}

NoDraws == [draw |-> 0, rounds |-> <<RoundDraw(WeakOpp, 0, 0)>>]

(* random.random() in hundredths: one roll per bucket of EVENTS, one past them *)
EventRolls == {2, 7, 11, 15, 18, 60}

IllnessDraws == {2, 5}

(* only the illness bucket (roll < 0.05) draws a penalty *)
event_draws(roll) == IF roll < EVENTS[1][2] THEN IllnessDraws ELSE {0}

InjuryRolls == {1, 100}

DurationDraws(severity) == {SEVERITY_DURATION[severity][1], SEVERITY_DURATION[severity][2]}

(***************************************************************************)
(* main(): one pass of the weekly loop that does not leave it              *)
(***************************************************************************)
NewGame == [player |-> NewPlayer("New Wrestler"), season |-> NewSeason, save_file |-> <<>>,
            matches |-> 0, season_start |-> [wins |-> 0, losses |-> 0]]

(* the wins and losses a season starts from: those on record at the year rollover *)
start_after(start, a) ==
    IF a.season.week % 52 = 0
    THEN [wins |-> a.player.record.wins, losses |-> a.player.record.losses]
    ELSE start

(* the four calls of a pass, each result bound as a value: e, i, c, a *)
week_advance(w, c) ==
    {[player |-> a.player, season |-> a.season, save_file |-> c.save_file,
      matches |-> w.matches + Len(c.played), season_start |-> start_after(w.season_start, a)]
        : a \in {advance_week(c.player, c.season)}}

week_choice(w, k, e, i) ==
    UNION {week_advance(w, c)
        : c \in {process_choice(k.choice, i.player, e.season, w.save_file, k.d)}}

week_injury(w, k, e) ==
    UNION {week_choice(w, k, e, i)
        : i \in {apply_injury_risk(e.player, k.iroll, k.severity, k.duration)}}

loop_week(w, k) ==
    CHOOSE r \in UNION {week_injury(w, k, e)
                    : e \in {trigger(w.player, w.season, k.roll, k.draw)}} : TRUE

Week(roll, draw, iroll, severity, duration, choice, d) ==
    [op |-> "week", roll |-> roll, draw |-> draw, iroll |-> iroll, severity |-> severity,
     duration |-> duration, choice |-> choice, d |-> d]

QuietWeek == Week(60, 0, 100, MINOR, 1, "x", NoDraws)

(***************************************************************************)
(* Earlier play: a session resumes the state an earlier one left (main()   *)
(* loads savegame.json), so a session starts in a state reached from the   *)
(* new game.  Each career below is obtained by running the operations of   *)
(* its script on the new game.                                             *)
(***************************************************************************)
do(w, step) ==
    CASE step.op = "week" -> loop_week(w, step)
      [] step.op = "simulate" ->
            LET m == simulate(w.player,
                              generate_for_stage(w.player.career_stage, step.rd.opp),
                              step.rd.variability, step.rd.tdraw)
            IN  [w EXCEPT !.player = m.player, !.matches = @ + 1]
      [] step.op = "adjust" ->
            [w EXCEPT !.player = adjust_weight_class(w.player, step.target).player]
      [] step.op = "toggle_season" ->
            [w EXCEPT !.season = toggle_season(w.season)]

(* the operation `step` run n times; each intermediate state is bound as a value *)
RECURSIVE repeat(_, _, _)
repeat(w, step, n) ==
    IF n = 0 THEN w
    ELSE CHOOSE r \in {repeat(t, step, n - 1) : t \in {do(w, step)}} : TRUE

RECURSIVE repeat_years(_, _, _)
repeat_years(w, step, n) ==
    IF n <= 52 THEN repeat(w, step, n)
    ELSE CHOOSE r \in {repeat_years(t, step, n - 52) : t \in {repeat(w, step, 52)}} : TRUE

RECURSIVE replay(_, _, _)
replay(w, script, i) ==
    IF i > Len(script) THEN w
    ELSE CHOOSE r \in {replay(t, script, i + 1) :
                        t \in {repeat_years(w, script[i][1], script[i][2])}} : TRUE

(* careers the weekly loop alone produces *)
LoopScripts ==
    { <<>>,
      << <<QuietWeek, 310>> >>,
      << <<QuietWeek, 414>> >>,
      << <<QuietWeek, 622>> >>,
      << <<QuietWeek, 674>> >>,
      << <<QuietWeek, 830>> >>,
      << <<Week(11, 0, 100, MINOR, 1, "x", NoDraws), 20>> >>,
      << <<Week(7, 0, 100, MINOR, 1, "x", NoDraws), 9>> >>,
      << <<Week(2, 5, 100, MINOR, 1, "x", NoDraws), 8>> >>,
      << <<Week(60, 0, 1, MAJOR, 8, "x", NoDraws), 1>>,
         <<Week(60, 0, 1, MINOR, 2, "x", NoDraws), 1>> >> }

(* careers that need calls the menu never makes *)
ApiScripts ==
    { << <<[op |-> "simulate", rd |-> RoundDraw(StrongOpp, -20, 10)], 19>> >>,
      << <<QuietWeek, 518>>, <<[op |-> "toggle_season"], 1>> >>,
      << <<[op |-> "simulate", rd |-> Favourable], 3>>, <<QuietWeek, 102>> >>,
      << <<[op |-> "adjust", target |-> 110], 1>>, <<[op |-> "adjust", target |-> 60], 1>>,
         <<[op |-> "adjust", target |-> 110], 1>>, <<[op |-> "adjust", target |-> 60], 1>>,
         <<[op |-> "adjust", target |-> 110], 1>>, <<[op |-> "adjust", target |-> 60], 1>>,
         <<[op |-> "adjust", target |-> 110], 1>>, <<[op |-> "adjust", target |-> 60], 1>>,
         <<[op |-> "adjust", target |-> 110], 1>>, <<[op |-> "adjust", target |-> 60], 1>> >> }

LoopCareers == {replay(NewGame, script, 1) : script \in LoopScripts}

Careers == LoopCareers \cup {replay(NewGame, script, 1) : script \in ApiScripts}

(***************************************************************************)
(* What the last operation returned                                        *)
(***************************************************************************)
Ret(op, arg, result, played, player_score, threshold) ==
    [op |-> op, arg |-> arg, result |-> result, played |-> played,
     player_score |-> player_score, threshold |-> threshold]

Begin(w, at) ==
    /\ player = w.player
    /\ season = w.season
    /\ save_file = w.save_file
    /\ matches = w.matches
    /\ season_start = w.season_start
    /\ pc = at
    /\ last = Ret("none", "", "None", <<>>, 0, 0)
    /\ week_injuries = <<>>
    /\ ops = 0

(***************************************************************************)
(* Operations called directly on the objects                               *)
(***************************************************************************)
ApplyAction ==
    \E action \in DirectActions : \E draw \in action_draws(action) :
        LET r == apply_action(player, action, draw)
        IN  /\ player' = r.player
            /\ last' = Ret("apply_action", action, r.message, <<>>, 0, 0)
            /\ ops' = ops + 1
            /\ UNCHANGED <<season, pc, save_file, matches, week_injuries, season_start>>

AdjustWeightClass ==
    \E target \in TargetInputs :
        LET r == adjust_weight_class(player, target)
        IN  /\ player' = r.player
            /\ last' = Ret("adjust_weight_class", ToString(target), r.message, <<>>, 0, 0)
            /\ ops' = ops + 1
            /\ UNCHANGED <<season, pc, save_file, matches, week_injuries, season_start>>

SimulateWith(draws) ==
    \E rd \in draws :
        LET opponent == generate_for_stage(player.career_stage, rd.opp)
            m == simulate(player, opponent, rd.variability, rd.tdraw)
        IN  /\ player' = m.player
            /\ matches' = matches + 1
            /\ last' = Ret("simulate", opponent.tier, m.outcome.result, <<m.outcome.result>>,
                           m.player_score, m.threshold)
            /\ ops' = ops + 1
            /\ UNCHANGED <<season, pc, save_file, week_injuries, season_start>>

SimulateMatch == SimulateWith(MatchDraws)

(* a tournament the caller built, or the one determine_postseason just returned *)
TournamentInputs ==
    {Tournament("Local Open", CareerStageName[player.career_stage])}
    \cup (IF last.op = "determine_postseason" /\ last.result # "None"
          THEN {Tournament(last.result, CareerStageName[player.career_stage])}
          ELSE {})

RunTournament ==
    \E t \in TournamentInputs : \E rounds \in BracketDraws(t.bracket_size \div 2) :
        LET r == run(t, player, rounds)
        IN  /\ player' = r.player
            /\ matches' = matches + Len(r.played)
            /\ last' = Ret("run", t.name, r.message, r.played, 0, 0)
            /\ ops' = ops + 1
            /\ UNCHANGED <<season, pc, save_file, week_injuries, season_start>>

TriggerEvent ==
    \E roll \in EventRolls : \E draw \in event_draws(roll) :
        LET r == trigger(player, season, roll, draw)
        IN  /\ player' = r.player
            /\ season' = r.season
            /\ last' = Ret("trigger", "", r.message, <<>>, 0, 0)
            /\ ops' = ops + 1
            /\ UNCHANGED <<pc, save_file, matches, week_injuries, season_start>>

InjuryRoll ==
    \E roll \in InjuryRolls : \E severity \in InjurySeverity :
      \E duration \in DurationDraws(severity) :
        LET r == apply_injury_risk(player, roll, severity, duration)
        IN  /\ player' = r.player
            /\ last' = Ret("apply_injury_risk", "", r.message, <<>>, 0, 0)
            /\ ops' = ops + 1
            /\ UNCHANGED <<season, pc, save_file, matches, week_injuries, season_start>>

AdvanceWeek ==
    LET r == advance_week(player, season)
    IN  /\ player' = r.player
        /\ season' = r.season
        /\ season_start' = start_after(season_start, r)
        /\ last' = Ret("advance_week", "", "None", <<>>, 0, 0)
        /\ ops' = ops + 1
        /\ UNCHANGED <<pc, save_file, matches, week_injuries>>

ToggleSeason ==
    /\ season' = toggle_season(season)
    /\ last' = Ret("toggle_season", "", "None", <<>>, 0, 0)
    /\ ops' = ops + 1
    /\ UNCHANGED <<player, pc, save_file, matches, week_injuries, season_start>>

DeterminePostseason ==
    LET r == determine_postseason(player, season)
    IN  /\ season' = r.season
        /\ last' = Ret("determine_postseason", "",
                       IF r.error THEN "ValueError"
                       ELSE IF r.tournament = <<>> THEN "None"
                       ELSE r.tournament[1].name,
                       <<>>, 0, 0)
        /\ ops' = ops + 1
        /\ UNCHANGED <<player, pc, save_file, matches, week_injuries, season_start>>

choice_draws(choice) ==
    IF choice \in DOMAIN menu_actions
    THEN {[draw |-> x, rounds |-> NoDraws.rounds] : x \in action_draws(menu_actions[choice])}
    ELSE IF choice = "10" /\ season.in_season
    THEN {[draw |-> 0, rounds |-> <<rd>>] : rd \in MatchDraws}
    ELSE IF choice = "11" /\ season.in_season
    THEN {[draw |-> 0, rounds |-> r] : r \in BracketDraws(4)}
    ELSE {NoDraws}

ChoiceRet(choice, r) ==
    IF choice \in DOMAIN menu_actions
    THEN Ret("apply_action", menu_actions[choice], r.result, <<>>, 0, 0)
    ELSE Ret("process_choice", choice, r.result, r.played, 0, 0)

ProcessChoice ==
    \E choice \in Choices : \E d \in choice_draws(choice) :
        LET r == process_choice(choice, player, season, save_file, d)
        IN  /\ player' = r.player
            /\ season' = r.season
            /\ save_file' = r.save_file
            /\ matches' = matches + Len(r.played)
            /\ last' = ChoiceRet(choice, r)
            /\ ops' = ops + 1
            /\ UNCHANGED <<pc, week_injuries, season_start>>

(***************************************************************************)
(* main(): the weekly loop, one step per call it makes                     *)
(***************************************************************************)
LoopEvent ==
    /\ pc = "event"
    /\ \E roll \in EventRolls : \E draw \in event_draws(roll) :
        LET r == trigger(player, season, roll, draw)
        IN  /\ player' = r.player
            /\ season' = r.season
            /\ last' = Ret("trigger", "", r.message, <<>>, 0, 0)
    /\ pc' = "injury"
    /\ ops' = ops + 1
    /\ UNCHANGED <<save_file, matches, week_injuries, season_start>>

(* faulty variant: the loop goes on to the menu whatever the injury *)
LoopInjury_goes_on ==
    /\ pc = "injury"
    /\ \E roll \in InjuryRolls : \E severity \in InjurySeverity :
         \E duration \in DurationDraws(severity) :
        LET r == apply_injury_risk(player, roll, severity, duration)
        IN  /\ player' = r.player
            /\ last' = Ret("apply_injury_risk", "", r.message, <<>>, 0, 0)
            /\ pc' = "menu"
            /\ week_injuries' = r.player.injuries
    /\ ops' = ops + 1
    /\ UNCHANGED <<season, save_file, matches, season_start>>

LoopInjury ==
    /\ pc = "injury"
    /\ \E roll \in InjuryRolls : \E severity \in InjurySeverity :
         \E duration \in DurationDraws(severity) :
        LET r == apply_injury_risk(player, roll, severity, duration)
            ended == /\ r.message # "None"
                     /\ \E i \in DOMAIN r.player.injuries :
                            r.player.injuries[i].severity = CATASTROPHIC
        IN  /\ player' = r.player
            /\ last' = Ret("apply_injury_risk", "", r.message, <<>>, 0, 0)
            /\ pc' = IF ended THEN "done" ELSE "menu"
            /\ week_injuries' = r.player.injuries
    /\ ops' = ops + 1
    /\ UNCHANGED <<season, save_file, matches, season_start>>

LoopChoice ==
    /\ pc = "menu"
    /\ \E choice \in Choices : \E d \in choice_draws(choice) :
        LET r == process_choice(choice, player, season, save_file, d)
        IN  /\ player' = r.player
            /\ season' = r.season
            /\ save_file' = r.save_file
            /\ matches' = matches + Len(r.played)
            /\ last' = ChoiceRet(choice, r)
            /\ pc' = IF r.result = "None" /\ choice = "13" THEN "done" ELSE "advance"
    /\ ops' = ops + 1
    /\ UNCHANGED <<week_injuries, season_start>>

LoopAdvance ==
    /\ pc = "advance"
    /\ LET r == advance_week(player, season)
       IN  /\ player' = r.player
           /\ season' = r.season
           /\ season_start' = start_after(season_start, r)
    /\ last' = Ret("advance_week", "", "None", <<>>, 0, 0)
    /\ pc' = "event"
    /\ ops' = ops + 1
    /\ UNCHANGED <<save_file, matches, week_injuries>>

(***************************************************************************)
(* Specifications                                                          *)
(***************************************************************************)
MaxOps == 2

MaxLoopSteps == 5

MaxSeasonOps == 6

MaxMatchOps == 1

(* any sequence of calls on the objects *)
Init == \E w \in Careers : Begin(w, "api")

Next ==
    \/ ops < MaxOps /\ ApplyAction
    \/ ops < MaxOps /\ AdjustWeightClass
    \/ ops < MaxOps /\ SimulateMatch
    \/ ops < MaxOps /\ RunTournament
    \/ ops < MaxOps /\ TriggerEvent
    \/ ops < MaxOps /\ InjuryRoll
    \/ ops < MaxOps /\ AdvanceWeek
    \/ ops < MaxOps /\ ToggleSeason
    \/ ops < MaxOps /\ DeterminePostseason
    \/ ops < MaxOps /\ ProcessChoice

Spec == Init /\ [][Next]_vars

(* main(): the state load() returns when an earlier session left a save file,
   else a new game; then the menu-driven weekly loop *)
Resumed(w) ==
    LET file == <<save(w.player, w.season)>>
        loaded == load(file[1])
    IN  [player |-> loaded.player, season |-> loaded.season, save_file |-> file,
         matches |-> w.matches, season_start |-> w.season_start]

MainInit ==
    \/ Begin(NewGame, "event")
    \/ \E w \in LoopCareers \ {NewGame} : Begin(Resumed(w), "event")

MainNext ==
    \/ ops < MaxLoopSteps /\ LoopEvent
    \/ ops < MaxLoopSteps /\ LoopInjury
    \/ ops < MaxLoopSteps /\ LoopChoice
    \/ ops < MaxLoopSteps /\ LoopAdvance

MainSpec == MainInit /\ [][MainNext]_vars

(* the season state machine alone *)
SeasonNext ==
    \/ ops < MaxSeasonOps /\ ToggleSeason
    \/ ops < MaxSeasonOps /\ DeterminePostseason
    \/ ops < MaxSeasonOps /\ AdvanceWeek

SeasonSpec == Init /\ [][SeasonNext]_vars

(* the match resolver over every variability draw *)
WideDraws ==
    {RoundDraw(o, v, t) : o \in {WeakOpp, MidOpp, StrongOpp}, v \in -20..20, t \in {-10, 10}}

MatchNext == ops < MaxMatchOps /\ SimulateWith(WideDraws)

MatchSpec == Init /\ [][MatchNext]_vars

(***************************************************************************)
(* Properties                                                              *)
(***************************************************************************)
StatNames == {"strength", "speed", "stamina", "technique", "mentality", "toughness", "confidence"}

InjuryIds(p) == {p.injuries[i].id : i \in DOMAIN p.injuries}

InjuryOf(p, id) == p.injuries[CHOOSE i \in DOMAIN p.injuries : p.injuries[i].id = id]

(* C1: in every reachable state the player's weight class is one of the
   classes of the weight-class system of the player's current career stage *)
C1_WeightClassLegal == player.weight_class \in Range(current_weight_classes(player))

(* C1 witness: a year rollover moved a high-school wrestler at 145 into college *)
C1_Witness ==
    /\ last.op = "advance_week"
    /\ player.career_stage = COLLEGE
    /\ player.grade = 13
    /\ player.weight_class = 141
    /\ ops = 2

(* C2: each of the seven stats is within 0..100 once an operation has completed *)
C2_StatsInRange == \A f \in StatNames : player.stats[f] >= 0 /\ player.stats[f] <= 100

(* C3: when a week of the loop has elapsed, every injury that was in the list as
   the menu was shown has lost exactly one week: it is in the list with one week
   less, or gone when that leaves none; and nothing else is in the list *)
C3_OneWeekPerWeek ==
    (pc = "event" /\ last.op = "advance_week") =>
        /\ \A i \in DOMAIN week_injuries :
              IF week_injuries[i].remaining_weeks - 1 > 0
              THEN /\ week_injuries[i].id \in InjuryIds(player)
                   /\ InjuryOf(player, week_injuries[i].id).remaining_weeks
                        = week_injuries[i].remaining_weeks - 1
              ELSE week_injuries[i].id \notin InjuryIds(player)
        /\ InjuryIds(player) \subseteq {week_injuries[i].id : i \in DOMAIN week_injuries}

(* C4: no step raises an injury's remaining weeks, no injury has negative
   remaining weeks, and after apply_action or advance_week (each ends with
   weekly_reset) no injury of the list has zero remaining weeks *)
C4_Step ==
    /\ \A i \in DOMAIN player'.injuries :
          /\ player'.injuries[i].remaining_weeks >= 0
          /\ player'.injuries[i].id \in InjuryIds(player) =>
                player'.injuries[i].remaining_weeks
                    <= InjuryOf(player, player'.injuries[i].id).remaining_weeks
    /\ last'.op \in {"apply_action", "advance_week"} =>
          \A i \in DOMAIN player'.injuries : player'.injuries[i].remaining_weeks # 0

C4_InjuryTimers == [][C4_Step]_vars

(* C4 witness: rehab and the reset after it took the last week of one injury,
   which left the list, and two weeks of the other *)
C4_Witness ==
    /\ last.op = "apply_action"
    /\ last.arg = "recover"
    /\ last.result = "Spent the week rehabbing injuries."
    /\ ops = 1
    /\ Len(player.injuries) = 1
    /\ player.injuries[1].severity = MAJOR
    /\ player.injuries[1].remaining_weeks = 4

(* C5: an apply_action("nil") that answers with the ineligibility message leaves
   the player as it was *)
C5_Step ==
    (last'.op = "apply_action" /\ last'.arg = "nil"
        /\ last'.result = "Not eligible for NIL at this stage.")
    => player' = player

C5_IneligibleNilNoChange == [][C5_Step]_vars

(* the documented outcome of a margin diff = player_score - threshold *)
Category(diff) ==
    IF diff > 20 THEN "Win by pin"
    ELSE IF diff > 10 THEN "Win by major decision"
    ELSE IF diff > 0 THEN "Win by decision"
    ELSE IF diff < -20 THEN "Loss by pin"
    ELSE IF diff < -10 THEN "Loss by major decision"
    ELSE "Loss by decision"

PlayerBase(p) ==
    p.stats.strength + p.stats.technique + p.stats.speed + p.stats.stamina
    + p.stats.mentality - p.fatigue - active_injury_penalty(p)

(* C6: a simulated match scores the player's five stats less fatigue and injury
   penalty plus a variability in -20..20, and its outcome is the documented
   category of the margin over the threshold; a tie is a loss by decision *)
C6_Step ==
    last'.op = "simulate" =>
        /\ last'.player_score - PlayerBase(player) \in -20..20
        /\ last'.result = Category(last'.player_score - last'.threshold)

C6_OutcomeByMargin == [][C6_Step]_vars

(* C6 witness: a match that ended level *)
C6_Witness ==
    /\ last.op = "simulate"
    /\ last.player_score = last.threshold
    /\ last.result = "Loss by decision"

(* C7: wins plus losses is the number of matches resolved, pins plus majors
   plus decisions is wins plus losses, and a step that resolves no match leaves
   the record as it was *)
C7_Totals ==
    /\ player.record.wins + player.record.losses = matches
    /\ player.record.pins + player.record.majors + player.record.decisions
        = player.record.wins + player.record.losses

C7_Step == matches' = matches => player'.record = player.record

C7_RecordTotals == []C7_Totals /\ [][C7_Step]_vars

(* C7 witness: a tournament run added three matches to an earlier record *)
C7_Witness ==
    /\ last.op = "run"
    /\ Len(last.played) = 3
    /\ matches > 3
    /\ player.record.wins >= 2

Wins(played) == Cardinality({i \in DOMAIN played : is_win([result |-> played[i]])})

(* C8: a tournament run resolves at most bracket_size \div 2 matches, only its
   last match can be a loss, the record gains exactly these matches, and one
   achievement "<level> <name>: <placement>" is appended, the placement being
   "Champion" when no match was lost and "<N> wins" after N wins otherwise *)
C8_Step ==
    last'.op = "run" =>
        LET played == last'.played
            won == Wins(played)
            lost == Len(played) - won
            level == CareerStageName[player.career_stage]
        IN  /\ Len(played) <= 8 \div 2
            /\ lost <= 1
            /\ \A i \in 1..(Len(played) - 1) : is_win([result |-> played[i]])
            /\ player'.record.wins = player.record.wins + won
            /\ player'.record.losses = player.record.losses + lost
            /\ matches' = matches + Len(played)
            /\ player'.achievements =
                  Append(player.achievements,
                         level \o " " \o last'.arg \o ": "
                         \o (IF lost = 0 THEN "Champion" ELSE ToString(won) \o " wins"))

C8_TournamentRun == [][C8_Step]_vars

(* C8 witness: a run lost in its second round *)
C8_Witness ==
    /\ last.op = "run"
    /\ last.played = <<"Win by pin", "Loss by pin">>
    /\ player.achievements # <<>>
    /\ player.achievements[Len(player.achievements)] = "YOUTH Local Open: 1 wins"

(* the documented postseason: the tournament a call returns and the phase it
   leaves, by stage and phase; "None" is no tournament *)
PostseasonAfter(stage, phase) ==
    IF stage \in {JUNIOR_HIGH, HIGH_SCHOOL}
    THEN CASE phase = "None" -> <<"Districts", "Districts">>
           [] phase = "Districts" -> <<"Regionals", "Regionals">>
           [] phase = "Regionals" -> <<"States", "States">>
           [] phase = "States" -> <<"None", "States">>
           [] OTHER -> <<"undefined", "undefined">>
    ELSE CASE phase = "None" -> <<"Conference", "Conference">>
           [] phase = "Conference" -> <<"NCAA", "NCAA">>
           [] phase = "NCAA" -> <<"None", "NCAA">>
           [] OTHER -> <<"undefined", "undefined">>

(* C9: in season, determine_postseason returns Districts, Regionals, States in
   that order for a junior-high or high-school wrestler and Conference, NCAA for
   any other, starting from a null phase; once the sequence is exhausted it
   returns nothing and leaves the phase at its last element *)
C9_Step ==
    (last'.op = "determine_postseason" /\ season.in_season) =>
        /\ last'.result = PostseasonAfter(player.career_stage, season.postseason_phase)[1]
        /\ season'.postseason_phase
            = PostseasonAfter(player.career_stage, season.postseason_phase)[2]
        /\ season'.in_season

C9_PostseasonOrder == [][C9_Step]_vars

(* C9 witness: the fourth call of a high-school season *)
C9_Witness ==
    /\ last.op = "determine_postseason"
    /\ last.result = "None"
    /\ player.career_stage = HIGH_SCHOOL
    /\ season.in_season
    /\ season.postseason_phase = "States"
    /\ ops = 4

StipendCredits(p) ==
    Cardinality({i \in DOMAIN p.finance.income_history :
                    p.finance.income_history[i] = "+$500: Scholarship stipend"})

(* C10: the scholarship stipend has been credited no times while grade < 13 and
   exactly once from grade 13 on *)
C10_StipendOnce == StipendCredits(player) = IF player.grade >= 13 THEN 1 ELSE 0

(* C10 witness: the rollover after the one that credited the stipend *)
C10_Witness ==
    /\ last.op = "advance_week"
    /\ player.grade = 14
    /\ season.week = 676
    /\ StipendCredits(player) = 1
    /\ player.finance.money = 500

(* C11: a dual meet (choice "10") or a tournament (choice "11") asked for through
   process_choice while the season is off is answered with the rejection message
   and changes nothing: player, season and the number of matches resolved stay *)
C11_Step ==
    (last'.op = "process_choice" /\ last'.arg \in {"10", "11"} /\ ~season.in_season) =>
        /\ player' = player
        /\ season' = season
        /\ matches' = matches
        /\ last'.played = <<>>
        /\ last'.result = IF last'.arg = "10" THEN "Dual meets only occur in season."
                          ELSE "Tournaments only occur in season."

C11_OffSeasonRejected == [][C11_Step]_vars

(* C11 witness: a wrestler with nineteen losses on record asked for a tournament
   out of season and was turned away *)
C11_Witness ==
    /\ last.op = "process_choice"
    /\ last.arg = "11"
    /\ last.result = "Tournaments only occur in season."
    /\ ~season.in_season
    /\ player.record.losses = 19
    /\ matches = 19

(* C12: adjust_weight_class with a target outside the class list of the current
   stage answers with the invalid-class message and leaves the player as it was *)
C12_Step ==
    (last'.op = "adjust_weight_class"
        /\ \A c \in Range(current_weight_classes(player)) : ToString(c) # last'.arg)
    => /\ player' = player
       /\ last'.result = "Invalid weight class for current level."

C12_InvalidTargetRejected == [][C12_Step]_vars

(* C12 witness: a youth wrestler under full cut pressure asked for the PIAA class
   107 and was refused *)
C12_Witness ==
    /\ last.op = "adjust_weight_class"
    /\ last.arg = "107"
    /\ last.result = "Invalid weight class for current level."
    /\ player.career_stage = YOUTH
    /\ player.weight_cut_pressure = 100
    /\ player.weight_class \in {60, 110}

(* C13: each of the ten actions apply_action accepts is what some menu choice does:
   for each action some choice of process_choice has the effect and the answer
   of apply_action with that action *)
C13_EveryActionOnMenu ==
    \A a \in ActionIds : \E c \in Choices : \E d \in choice_draws(c) :
      \E draw \in action_draws(a) :
        LET chosen == process_choice(c, player, season, save_file, d)
            direct == apply_action(player, a, draw)
        IN  /\ chosen.player = direct.player
            /\ chosen.result = direct.message

(* C14: the recruitment interest a year rollover adds is the win margin of the
   season that ends with it: wins less losses of the matches resolved since the
   previous rollover, or nothing when that is negative *)
C14_Step ==
    (last'.op = "advance_week" /\ season'.week % 52 = 0) =>
        season'.recruitment_interest - season.recruitment_interest
            = Max(0, (player.record.wins - season_start.wins)
                     - (player.record.losses - season_start.losses))

C14_SeasonMargin == [][C14_Step]_vars

Catastrophic(p) == \E i \in DOMAIN p.injuries : p.injuries[i].severity = CATASTROPHIC

(* C15: in the weekly loop, once a Catastrophic injury is in the injury list the
   career-ending achievement is on record and the loop has ended at the injury
   roll that produced it; nothing runs after it: no menu choice, no match, no
   advance_week *)
C15_Ended ==
    Catastrophic(player) =>
        /\ pc = "done"
        /\ last.op = "apply_injury_risk"
        /\ "Career ended due to injury" \in Range(player.achievements)

C15_CatastrophicEndsLoop == []C15_Ended /\ [][~Catastrophic(player)]_vars

(* C15 witness: the roll of the first week gave a Catastrophic injury of 52 weeks
   and the loop ended before its menu *)
C15_Witness ==
    /\ pc = "done"
    /\ last.op = "apply_injury_risk"
    /\ last.result = "Injury occurred: Catastrophic injury lasting 52 weeks."
    /\ Catastrophic(player)
    /\ player.achievements = <<"Career ended due to injury">>
    /\ season.week = 1
    /\ matches = 0

(* the fields of the Injury dataclass, without the identity of the object *)
InjuryFields(injuries) ==
    [i \in DOMAIN injuries |->
        [name |-> injuries[i].name, severity |-> injuries[i].severity,
         remaining_weeks |-> injuries[i].remaining_weeks,
         stat_penalty |-> injuries[i].stat_penalty]]

SameFields(p, q) ==
    [p EXCEPT !.injuries = InjuryFields(@)] = [q EXCEPT !.injuries = InjuryFields(@)]

(* C16: load of what save writes for the player and season of any reachable state
   gives a player and a season equal to them in every field, the injuries in
   order; and a file just written by choice "12" or "13" loads to the state it
   was written from *)
C16_RoundTrip ==
    /\ LET loaded == load(save(player, season))
       IN  /\ SameFields(loaded.player, player)
           /\ loaded.season = season
    /\ (last.op = "process_choice" /\ last.arg \in {"12", "13"}) =>
          /\ save_file # <<>>
          /\ SameFields(load(save_file[1]).player, player)
          /\ load(save_file[1]).season = season

(* C16 witness: a wrestler with a Major and a Minor injury saved the game, and the
   file holds both injuries under their severity names *)
C16_Witness ==
    /\ last.op = "process_choice"
    /\ last.arg = "12"
    /\ last.result = "Game saved."
    /\ save_file # <<>>
    /\ Len(player.injuries) = 2
    /\ save_file[1].player.injuries[1].severity = "MAJOR"
    /\ save_file[1].player.injuries[2].severity = "MINOR"
    /\ save_file[1].season.postseason_phase = "None"

(* C17: once an operation has completed, fatigue is within 0..100, injury risk
   within 1..95 and weight-cut pressure within 0..100 *)
C17_GaugesInRange ==
    /\ player.fatigue >= 0 /\ player.fatigue <= 100
    /\ player.injury_risk >= 1 /\ player.injury_risk <= 95
    /\ player.weight_cut_pressure >= 0 /\ player.weight_cut_pressure <= 100

(* C17 witness: a rough weight cut hit a wrestler already at fatigue 100 and
   injury risk 95, and both stayed there *)
C17_Witness ==
    /\ last.op = "trigger"
    /\ last.result = "Rough weight cut increased fatigue and injury risk."
    /\ player.fatigue = 100
    /\ player.injury_risk = 95
    /\ ops = 1

(* C18: advance_week adds exactly one to the week and nothing else changes it;
   the grade goes up by one on exactly the advance_week calls whose new week is
   a multiple of 52, and those leave the season off and the phase null, while
   the other calls leave grade, season flag and phase alone; so the grade is
   1 + week div 52 in every reachable state *)
C18_Step ==
    IF last'.op = "advance_week"
    THEN /\ season'.week = season.week + 1
         /\ IF season'.week % 52 = 0
            THEN /\ player'.grade = player.grade + 1
                 /\ player'.age = player.age + 1
                 /\ ~season'.in_season
                 /\ season'.postseason_phase = "None"
            ELSE /\ player'.grade = player.grade
                 /\ player'.age = player.age
                 /\ season'.in_season = season.in_season
                 /\ season'.postseason_phase = season.postseason_phase
    ELSE /\ season'.week = season.week
         /\ player'.grade = player.grade

C18_WeekAndGrade == [](player.grade = 1 + season.week \div 52) /\ [][C18_Step]_vars

(* C18 witness: the second call of a session took a high-school wrestler over the
   rollover of week 520, into grade 11 with the season off *)
C18_Witness ==
    /\ last.op = "advance_week"
    /\ season.week = 520
    /\ player.grade = 11
    /\ ~season.in_season
    /\ season.postseason_phase = "None"
    /\ ops = 2
    /\ matches = 0

(* the documented bands of the grade *)
GradeBand(grade) ==
    CASE grade <= 6 -> YOUTH
      [] grade >= 7 /\ grade <= 8 -> JUNIOR_HIGH
      [] grade >= 9 /\ grade <= 12 -> HIGH_SCHOOL
      [] grade >= 13 /\ grade <= 16 -> COLLEGE
      [] OTHER -> POST_COLLEGE

(* C19: in every reachable state the career stage is the band of the grade, and
   no step moves the stage back or forward by more than one stage *)
C19_Step ==
    /\ player'.career_stage >= player.career_stage
    /\ player'.career_stage <= player.career_stage + 1

C19_StageFromGrade == [](player.career_stage = GradeBand(player.grade)) /\ [][C19_Step]_vars

(* C19 witness: the rollover of week 832 took a college senior to grade 17 and
   the post-college stage *)
C19_Witness ==
    /\ last.op = "advance_week"
    /\ season.week = 832
    /\ player.grade = 17
    /\ player.career_stage = POST_COLLEGE
    /\ ops = 1

(* the weight-class system of a stage *)
SystemOf(stage) ==
    CASE stage = YOUTH -> WCS_YOUTH
      [] stage \in {JUNIOR_HIGH, HIGH_SCHOOL} -> WCS_PIAA
      [] OTHER -> WCS_NCAA

(* C20: a year rollover sets the weight class to a class of the new stage's list
   at the least distance from the old weight class, the lower one of two equally
   close, and leaves it as it was when the weight-class system stays the same *)
C20_Step ==
    (last'.op = "advance_week" /\ season'.week % 52 = 0) =>
        LET classes == Range(WEIGHT_CLASSES[SystemOf(player'.career_stage)])
            old == player.weight_class
            new == player'.weight_class
        IN  /\ new \in classes
            /\ \A c \in classes : Abs(new - old) <= Abs(c - old)
            /\ \A c \in classes : Abs(c - old) = Abs(new - old) => new <= c
            /\ SystemOf(player'.career_stage) = SystemOf(player.career_stage) => new = old

C20_ClosestClass == [][C20_Step]_vars

(* C20 witness: a high-school senior who had moved from 107 to 145 went to college
   at the rollover of week 624 and was put at 141, not 149 *)
C20_Witness ==
    /\ last.op = "advance_week"
    /\ season.week = 624
    /\ player.weight_class = 141
    /\ player.weight_cut_pressure = 7
    /\ player.achievements = <<>>
    /\ StipendCredits(player) = 1

(* the amounts and reasons the program logs *)
LedgerAmounts == {5, 10, 15, 25, 30, 50, 75, 150, 500}

LedgerReasons ==
    {"Weight room access", "Club practice", "Film subscription", "Running shoes",
     "Physical therapy", "New headgear and shoes", "Private coach session",
     "Local NIL appearance", "Scholarship stipend", "Replaced broken gear"}

(* every entry text an amount and a reason format to, with the amount *)
IncomeEntries ==
    {<<"+$" \o ToString(n) \o ": " \o r, n>> : n \in LedgerAmounts, r \in LedgerReasons}

ExpenseEntries ==
    {<<"-$" \o ToString(n) \o ": " \o r, n>> : n \in LedgerAmounts, r \in LedgerReasons}

(* the amounts a log entry can be read as *)
ReadAmounts(entries, entry) == {t[2] : t \in {u \in entries : u[1] = entry}}

RECURSIVE LoggedSum(_, _, _)
LoggedSum(entries, log, i) ==
    IF i > Len(log) THEN 0
    ELSE (CHOOSE n \in ReadAmounts(entries, log[i]) \cup {0} :
              ReadAmounts(entries, log[i]) # {} => n \in ReadAmounts(entries, log[i]))
         + LoggedSum(entries, log, i + 1)

IsPrefix(a, b) == Len(a) <= Len(b) /\ SubSeq(b, 1, Len(a)) = a

(* C21: every log entry reads as one amount, and money is the logged income less
   the logged expenses, whatever its sign; a step only appends to the two logs,
   and one that changes money adds exactly one entry *)
C21_Balanced ==
    LET f == player.finance
    IN  /\ \A i \in DOMAIN f.income_history :
              Cardinality(ReadAmounts(IncomeEntries, f.income_history[i])) = 1
        /\ \A i \in DOMAIN f.expense_history :
              Cardinality(ReadAmounts(ExpenseEntries, f.expense_history[i])) = 1
        /\ f.money = LoggedSum(IncomeEntries, f.income_history, 1)
                        - LoggedSum(ExpenseEntries, f.expense_history, 1)

C21_Step ==
    LET f == player.finance
        g == player'.finance
    IN  /\ IsPrefix(f.income_history, g.income_history)
        /\ IsPrefix(f.expense_history, g.expense_history)
        /\ g.money # f.money =>
              Len(g.income_history) + Len(g.expense_history)
                  = Len(f.income_history) + Len(f.expense_history) + 1

C21_Ledger == []C21_Balanced /\ [][C21_Step]_vars

(* C21 witness: new equipment and a private coach session were paid from an empty
   purse, which stands at -125 with both expenses logged in order *)
C21_Witness ==
    /\ last.op = "apply_action"
    /\ last.arg = "coach"
    /\ player.finance.money = -125
    /\ player.finance.income_history = <<>>
    /\ player.finance.expense_history
          = <<"-$50: New headgear and shoes", "-$75: Private coach session">>

(* the documented phase sequence of a stage *)
PhaseSequence(stage) ==
    IF stage \in {JUNIOR_HIGH, HIGH_SCHOOL}
    THEN <<"Districts", "Regionals", "States">>
    ELSE <<"Conference", "NCAA">>

(* C22: under any interleaving of toggle_season, determine_postseason and
   advance_week a non-null phase goes with an open season and is a phase of the
   sequence of the current stage, so the lookup of the phase never fails; a
   season entered by toggle_season has a null phase, and a call of
   determine_postseason on a null phase in season gives the first phase *)
C22_PhaseKnown ==
    /\ season.postseason_phase # "None" =>
          /\ season.in_season
          /\ season.postseason_phase \in Range(PhaseSequence(player.career_stage))
    /\ last.result # "ValueError"

C22_Step ==
    /\ (last'.op = "toggle_season" /\ season'.in_season) => season'.postseason_phase = "None"
    /\ (last'.op = "determine_postseason" /\ season.in_season
            /\ season.postseason_phase = "None")
        => /\ season'.postseason_phase = PhaseSequence(player.career_stage)[1]
           /\ last'.result = PhaseSequence(player.career_stage)[1]

C22_PhaseCursor == []C22_PhaseKnown /\ [][C22_Step]_vars

(* C22 witness: the sixth call of a session opened a college postseason at
   Conference *)
C22_Witness ==
    /\ last.op = "determine_postseason"
    /\ last.result = "Conference"
    /\ season.postseason_phase = "Conference"
    /\ season.in_season
    /\ player.career_stage = COLLEGE
    /\ ops = 6

(* C23: in the menu-driven loop the season is never open, so a dual meet or a
   tournament asked for is rejected, no match has been resolved, the record is
   0-0 and no achievement is a tournament entry *)
C23_NeverInSeason ==
    /\ ~season.in_season
    /\ season.postseason_phase = "None"
    /\ matches = 0
    /\ player.record = NewRecord
    /\ Range(player.achievements) \subseteq {"Career ended due to injury"}
    /\ (last.op = "process_choice" /\ last.arg = "10") =>
          last.result = "Dual meets only occur in season."
    /\ (last.op = "process_choice" /\ last.arg = "11") =>
          last.result = "Tournaments only occur in season."

(* C23 witness: in the eighth year of a career played from the menu a dual meet
   was asked for and rejected, and the week is about to advance *)
C23_Witness ==
    /\ pc = "advance"
    /\ last.op = "process_choice"
    /\ last.arg = "10"
    /\ last.result = "Dual meets only occur in season."
    /\ season.week = 415
    /\ player.grade = 8
    /\ player.record.wins + player.record.losses = 0

====
